---- MODULE Spec2Model ----
(***************************************************************************)
(* Grenzgaenger-Service API: lead scoring (compute_score_and_recommendation,*)
(* create_lead, list_leads) and the net salary estimator (estimate_bvg_rate,*)
(* estimate_quellensteuer_rate, calc_net) of src/main.py, with the Lead and *)
(* NetCalcRequest schemas.                                                  *)
(*                                                                          *)
(* Representation.                                                          *)
(*  - A Python str on which the code matches substrings (work_ch) is a      *)
(*    sequence of one-character strings; enumeration strings are strings.   *)
(*  - An Optional value is a sequence: None is <<>>, a value v is <<v>>.    *)
(*  - A date is a day number; date subtraction gives .days.                 *)
(*  - Rates are integers in per mille (0.053 is 53), the exchange rate in   *)
(*    per cent (0.95 is 95), gross_chf in whole CHF.  gross * rate is then  *)
(*    an exact integer in 1/1000 CHF and net_chf * exchange_rate in         *)
(*    1/100000 EUR.  The code computes in binary floating point; round(x,2) *)
(*    of a value that is an exact decimal tie (x.xx5) goes up or down       *)
(*    depending on representation error the model does not track, so        *)
(*    round2 gives the set of nearest cent values.                          *)
(*  - The contact fields of Lead (first_name, last_name, email, phone) are  *)
(*    copied through unread by every function and are left out.             *)
(***************************************************************************)
EXTENDS Integers, Sequences, FiniteSets, TLC

VARIABLES
    clock,   \* the ambient date, datetime.utcnow().date(), as a day number
    store,   \* the "lead" collection: the documents handed to create_document
    req,     \* the call being served: the function or route and its argument
    resp     \* what the call returned (or raised)

vars == <<clock, store, req, resp>>

None == <<>>
Some(v) == <<v>>
Val(o) == o[1]

Max(a, b) == IF a >= b THEN a ELSE b
Min(a, b) == IF a <= b THEN a ELSE b

(***************************************************************************)
(* str.lower, str.strip and the `in` operator on strings.                   *)
(***************************************************************************)
UpperChars ==
    <<"A", "B", "C", "D", "E", "F", "G", "H", "I", "J", "K", "L", "M", "N", "O", "P", "Q",
      "R", "S", "T", "U", "V", "W", "X", "Y", "Z", "Ä", "Ö", "Ü">>
LowerChars ==
    <<"a", "b", "c", "d", "e", "f", "g", "h", "i", "j", "k", "l", "m", "n", "o", "p", "q",
      "r", "s", "t", "u", "v", "w", "x", "y", "z", "ä", "ö", "ü">>

lower_char(c) ==
    IF \E i \in 1..Len(UpperChars) : UpperChars[i] = c
    THEN LowerChars[CHOOSE i \in 1..Len(UpperChars) : UpperChars[i] = c]
    ELSE c

lower(s) == [i \in 1..Len(s) |-> lower_char(s[i])]

Whitespace == {" ", "\t", "\n"}

RECURSIVE lstrip(_)
lstrip(s) == IF s # <<>> /\ Head(s) \in Whitespace THEN lstrip(Tail(s)) ELSE s

RECURSIVE rstrip(_)
rstrip(s) ==
    IF s # <<>> /\ s[Len(s)] \in Whitespace THEN rstrip(SubSeq(s, 1, Len(s) - 1)) ELSE s

strip(s) == rstrip(lstrip(s))

\* k in s
contains(k, s) ==
    \E i \in 0..(Len(s) - Len(k)) : SubSeq(s, i + 1, i + Len(k)) = k

\* x or d, for a str
or_str(s, d) == IF s = <<>> THEN d ELSE s

\* x or d, for an Optional number: None and 0 are falsy
or_num(o, d) == IF o = None \/ Val(o) = 0 THEN d ELSE Val(o)

\* x or d, for an Optional enumeration string: None and "" are falsy
or_enum(o, d) == IF o = None \/ Val(o) = "" THEN d ELSE Val(o)

(***************************************************************************)
(* The keywords the code matches work_ch against.                           *)
(***************************************************************************)
kw_liechtenstein == <<"l", "i", "e", "c", "h", "t", "e", "n", "s", "t", "e", "i", "n">>
kw_fl == <<"f", "l">>
kw_li == <<"l", "i">>
kw_zh == <<"z", "h">>
kw_zuerich_umlaut == <<"z", "ü", "r", "i", "c", "h">>
kw_zuerich == <<"z", "u", "e", "r", "i", "c", "h">>
kw_basel == <<"b", "a", "s", "e", "l">>
kw_bs == <<"b", "s">>
kw_ge == <<"g", "e">>
kw_genf == <<"g", "e", "n", "f">>

(***************************************************************************)
(* Lead scoring.                                                            *)
(***************************************************************************)
\* raw_score with the age threshold off by one (years <= 30 for years < 30)
raw_score_age_inclusive(lead) ==
    LET years == (clock - Val(lead.birth_date)) \div 365
        age_pts == IF lead.birth_date = None THEN 0
                   ELSE IF years <= 30 THEN 10
                   ELSE IF years > 55 THEN -5
                   ELSE 0
        status_pts == IF lead.status = "Neu-Grenzgänger" THEN 15
                      ELSE IF lead.status = "Plane Wechsel" THEN 5
                      ELSE 0
        family_pts == IF lead.family = "Mit Kindern" THEN 10
                      ELSE IF lead.family = "Mit Partner" THEN 5
                      ELSE 0
        email_pts == IF lead.consent_email THEN 5 ELSE 0
        whatsapp_pts == IF lead.consent_whatsapp THEN 10 ELSE 0
    IN  50 + age_pts + status_pts + family_pts + email_pts + whatsapp_pts

\* lines 62-88: the additive score before the final clamp.  `today` is read
\* from the ambient clock inside the function, not passed in.
raw_score(lead) ==
    LET years == (clock - Val(lead.birth_date)) \div 365
        age_pts == IF lead.birth_date = None THEN 0
                   ELSE IF years < 30 THEN 10
                   ELSE IF years > 55 THEN -5
                   ELSE 0
        status_pts == IF lead.status = "Neu-Grenzgänger" THEN 15
                      ELSE IF lead.status = "Plane Wechsel" THEN 5
                      ELSE 0
        family_pts == IF lead.family = "Mit Kindern" THEN 10
                      ELSE IF lead.family = "Mit Partner" THEN 5
                      ELSE 0
        email_pts == IF lead.consent_email THEN 5 ELSE 0
        whatsapp_pts == IF lead.consent_whatsapp THEN 10 ELSE 0
    IN  50 + age_pts + status_pts + family_pts + email_pts + whatsapp_pts

\* lines 91-96
ch_keywords == {kw_zh, kw_zuerich_umlaut, kw_zuerich, kw_basel, kw_bs, kw_ge, kw_genf}

recommend_model(work_ch) ==
    LET canton == lower(or_str(work_ch, <<>>))
    IN  IF contains(kw_liechtenstein, canton) \/ kw_fl = canton THEN "AT"
        ELSE IF \E k \in ch_keywords : contains(k, canton) THEN "CH"
        ELSE "Hybrid"

\* category_of with a strict threshold
category_of_strict(score) == IF score > 75 THEN "hot" ELSE "warm"

\* line 98: the category is taken from the score before it is clamped
category_of(score) == IF score >= 75 THEN "hot" ELSE "warm"

\* line 99
clamp_score(score) == Max(0, Min(100, score))

compute_score_and_recommendation(lead) ==
    LET score == raw_score(lead)
    IN  [score |-> clamp_score(score),
         category |-> category_of(score),
         recommended_model |-> recommend_model(lead.work_ch)]

(***************************************************************************)
(* Net salary estimator.                                                    *)
(***************************************************************************)
\* estimate_bvg_rate with the upper bound of each band inclusive
estimate_bvg_rate_inclusive(age) ==
    IF age = None THEN 70
    ELSE IF Val(age) <= 25 THEN 50
    ELSE IF Val(age) <= 35 THEN 70
    ELSE IF Val(age) <= 45 THEN 90
    ELSE IF Val(age) <= 55 THEN 110
    ELSE 120

\* lines 160-172, in per mille
estimate_bvg_rate(age) ==
    IF age = None THEN 70
    ELSE IF Val(age) < 25 THEN 50
    ELSE IF Val(age) < 35 THEN 70
    ELSE IF Val(age) < 45 THEN 90
    ELSE IF Val(age) < 55 THEN 110
    ELSE 120

\* qs_base with the Liechtenstein rate a digit short (0.002 for 0.012)
qs_base_fl_low(work_ch_lower) ==
    IF \E k \in {kw_zh, kw_zuerich_umlaut, kw_zuerich} : contains(k, work_ch_lower) THEN 45
    ELSE IF \E k \in {kw_bs, kw_basel} : contains(k, work_ch_lower) THEN 43
    ELSE IF \E k \in {kw_ge, kw_genf} : contains(k, work_ch_lower) THEN 50
    ELSE IF contains(kw_liechtenstein, work_ch_lower)
            \/ strip(work_ch_lower) \in {kw_fl, kw_li} THEN 2
    ELSE 20

\* lines 177-185, in per mille
qs_base(work_ch_lower) ==
    IF \E k \in {kw_zh, kw_zuerich_umlaut, kw_zuerich} : contains(k, work_ch_lower) THEN 45
    ELSE IF \E k \in {kw_bs, kw_basel} : contains(k, work_ch_lower) THEN 43
    ELSE IF \E k \in {kw_ge, kw_genf} : contains(k, work_ch_lower) THEN 50
    ELSE IF contains(kw_liechtenstein, work_ch_lower)
            \/ strip(work_ch_lower) \in {kw_fl, kw_li} THEN 12
    ELSE 20

\* qs_relief without the cap of three children
qs_relief_uncapped(marital, children_count) ==
    (IF marital = "married" THEN 4 ELSE 0) + 2 * children_count

\* line 188, in per mille
qs_relief(marital, children_count) ==
    (IF marital = "married" THEN 4 ELSE 0) + 2 * Min(3, children_count)

\* line 189
qs_floor(base, relief) == Max(0, base - relief)

estimate_quellensteuer_rate(work_ch_lower, marital, children_count) ==
    qs_floor(qs_base(work_ch_lower), qs_relief(marital, children_count))

\* line 199
work_of(r) == strip(lower(or_str(r.work_ch, <<>>)))

\* line 211: the rate calc_net applies to request r
qs_rate_of(r) ==
    estimate_quellensteuer_rate(work_of(r), or_enum(r.marital, "single"),
                                or_num(r.children_count, 0))

\* round(x, 2) of the amount x given in units of 1/(100 * per_cent): the
\* nearest cent values (two of them on an exact tie)
round2(x, per_cent) ==
    LET q == x \div per_cent
        r == x % per_cent
    IN  IF 2 * r < per_cent THEN {q}
        ELSE IF 2 * r > per_cent THEN {q + 1}
        ELSE {q, q + 1}

\* line 203: 148200/12
alv_cap == 148200 \div 12

\* total_of that leaves the withholding tax out of the sum
total_of_without_qs(ahv_iv_eo, alv, nbu, bvg, quellensteuer) ==
    ahv_iv_eo + alv + nbu + bvg

\* lines 202-212 and 223-225: the unrounded amounts, in 1/1000 CHF (net_eur in
\* 1/100000 EUR)
total_of(ahv_iv_eo, alv, nbu, bvg, quellensteuer) ==
    ahv_iv_eo + alv + nbu + bvg + quellensteuer

net_chf_of(gross, total_deductions) == Max(0, gross * 1000 - total_deductions)

amounts(r) ==
    LET gross == r.gross_chf.value
        ahv_iv_eo == gross * 53
        alv == Min(gross, alv_cap) * 11
        nbu == gross * 11
        bvg == gross * estimate_bvg_rate(r.age)
        health_hint == 0
        quellensteuer == gross * qs_rate_of(r)
        total_deductions == total_of(ahv_iv_eo, alv, nbu, bvg, quellensteuer)
        net_chf == net_chf_of(gross, total_deductions)
        net_eur == net_chf * or_num(r.exchange_rate, 95)
    IN  [ahv_iv_eo |-> ahv_iv_eo, alv |-> alv, nbu |-> nbu, bvg |-> bvg,
         health_hint |-> health_hint, quellensteuer |-> quellensteuer,
         total_deductions |-> total_deductions, net_chf |-> net_chf,
         net_eur |-> net_eur]

Disclaimer == "Unverbindliche Richtwerte. Individuelle Situation (Kasse, Alter, BVG-Plan, Steuerstatus) kann stark abweichen."

\* lines 214-240: the NetCalcResult values calc_net can return for r, all
\* amounts in cents (1/100 CHF or EUR).  The rates are whole per mille, so
\* round(rate, 3) leaves them as they are.
net_calc_results(r) ==
    LET a == amounts(r)
    IN  { [net_chf |-> t[7],
           net_eur |-> t[8],
           total_deductions |-> t[6],
           breakdown |-> [ahv_iv_eo |-> t[1], alv |-> t[2], nbu |-> t[3],
                          bvg |-> t[4], quellensteuer |-> t[5],
                          krankenkasse |-> CHOOSE h \in round2(a.health_hint, 10) : TRUE],
           assumptions |-> [exchange_rate |-> r.exchange_rate,
                            bvg_rate |-> estimate_bvg_rate(r.age),
                            qs_rate |-> qs_rate_of(r),
                            disclaimer |-> Disclaimer]] :
          t \in round2(a.ahv_iv_eo, 10) \X round2(a.alv, 10) \X round2(a.nbu, 10)
                \X round2(a.bvg, 10) \X round2(a.quellensteuer, 10)
                \X round2(a.total_deductions, 10) \X round2(a.net_chf, 10)
                \X round2(a.net_eur, 1000) }

\* lines 193-240: every outcome of calc_net(r).  float(req.gross_chf) raises
\* only for a value that is no number; nothing else in the function fails.
calc_net(r) ==
    IF ~r.gross_chf.numeric
    THEN {[kind |-> "error", status |-> 400, detail |-> "Invalid gross_chf"]}
    ELSE {[kind |-> "net", status |-> 200, body |-> b] : b \in net_calc_results(r)}

\* lines 143-150: the constraints the NetCalcRequest schema declares
valid_request(r) ==
    /\ r.gross_chf.numeric /\ r.gross_chf.value > 0
    /\ r.age = None \/ (Val(r.age) >= 16 /\ Val(r.age) <= 70)
    /\ r.children_count = None \/ (Val(r.children_count) >= 0 /\ Val(r.children_count) <= 10)
    /\ r.exchange_rate = None \/ Val(r.exchange_rate) > 0

(***************************************************************************)
(* The lead routes.  database.py (create_document, get_documents) is not    *)
(* part of the sources at hand; the store is modelled from its contract:    *)
(* create_document stores the record and returns an identifier, or fails    *)
(* and stores nothing; get_documents returns at most `limit` records.       *)
(***************************************************************************)
\* dict.update
dict_update(d, u) ==
    [k \in (DOMAIN d) \cup (DOMAIN u) |-> IF k \in DOMAIN u THEN u[k] ELSE d[k]]

\* lead_doc that lets the values of the request body win over the computed ones
lead_doc_keep_submitted(lead, s) ==
    dict_update([score |-> Some(s.score),
                 category |-> Some(s.category),
                 recommended_model |-> Some(s.recommended_model),
                 source |-> "web-form"],
                [k \in {f \in DOMAIN lead :
                          f \notin {"score", "category", "recommended_model"}
                          \/ lead[f] # None} |-> lead[k]])

\* lines 111-117
lead_doc(lead, s) ==
    dict_update(lead, [score |-> Some(s.score),
                       category |-> Some(s.category),
                       recommended_model |-> Some(s.recommended_model),
                       source |-> "web-form"])

\* line 124
lead_response(lead_id, s) ==
    [kind |-> "lead", status |-> 200,
     body |-> [id |-> lead_id, score |-> s.score, category |-> s.category,
               recommended_model |-> s.recommended_model]]

create_document(docs, doc) == Append(docs, [id |-> Len(docs) + 1, doc |-> doc])

get_documents(docs, limit) ==
    IF limit = None THEN docs ELSE SubSeq(docs, 1, Min(Val(limit), Len(docs)))

\* line 134: str(ObjectId)
objectid_str(id) == [hex |-> id]

\* lines 132-135
lead_items(docs) ==
    [i \in 1..Len(docs) |-> [id |-> objectid_str(docs[i].id), doc |-> docs[i].doc]]

NoCall == [fn |-> "none"]
NoResp == [kind |-> "none"]

MaxStore == 2

\* POST /api/lead, lines 106-124
create_lead(lead) ==
    LET s == compute_score_and_recommendation(lead)
        doc == lead_doc(lead, s)
    IN  /\ Len(store) < MaxStore
        /\ req' = [fn |-> "create_lead", arg |-> lead]
        /\ \/ /\ store' = create_document(store, doc)
              /\ resp' = lead_response(Len(store) + 1, s)
           \/ /\ store' = store
              /\ resp' = [kind |-> "error", status |-> 500, detail |-> "Database error"]
        /\ UNCHANGED clock

\* GET /api/leads, lines 127-137
list_leads(limit) ==
    /\ req' = [fn |-> "list_leads", arg |-> limit]
    /\ \/ resp' = [kind |-> "leads", status |-> 200,
                   body |-> [items |-> lead_items(get_documents(store, limit))]]
       \/ resp' = [kind |-> "error", status |-> 500, detail |-> "Database error"]
    /\ UNCHANGED <<clock, store>>

\* POST /api/calc/net, lines 192-240: the framework validates the body
\* against NetCalcRequest (lines 143-150) before calc_net runs
post_calc_net(r) ==
    /\ req' = [fn |-> "post_calc_net", arg |-> r]
    /\ IF valid_request(r)
       THEN resp' \in calc_net(r)
       ELSE resp' = [kind |-> "error", status |-> 422, detail |-> "validation"]
    /\ UNCHANGED <<clock, store>>

(***************************************************************************)
(* Inputs.                                                                  *)
(***************************************************************************)
Day0 == 20000
MaxTicks == 1
MaxWorkLen == 3

w_zuerich == <<"Z", "ü", "r", "i", "c", "h">>
w_zuerich_upper == <<"Z", "Ü", "R", "I", "C", "H">>
w_zh == <<"Z", "H">>
w_zuerich_ue == <<"Z", "u", "e", "r", "i", "c", "h">>
w_basel == <<"B", "a", "s", "e", "l">>
w_bs == <<"B", "S">>
w_genf == <<"G", "e", "n", "f">>
w_ge == <<"G", "E">>
w_liechtenstein == <<"L", "i", "e", "c", "h", "t", "e", "n", "s", "t", "e", "i", "n">>
w_liechtenstein_padded == <<" ", " ">> \o w_liechtenstein \o <<" ">>
w_fl == <<"F", "L">>
w_fl_padded == <<" ", "F", "L", " ">>
w_li == <<"L", "I">>
w_li_padded == <<"\t", "l", "i", "\n">>
w_bern == <<"B", "e", "r", "n">>
w_flawil == <<"F", "l", "a", "w", "i", "l">>
w_liechtenstein_zh == w_liechtenstein \o <<"/">> \o w_zh
w_bs_zh == w_bs \o <<"/">> \o w_zh
w_genf_bs == w_genf \o <<" ">> \o w_bs
w_genf_liechtenstein == w_genf \o <<",", " ">> \o w_liechtenstein
w_basel_padded == <<" ">> \o w_basel

WorkNamed ==
    {w_zuerich, w_zuerich_upper, w_zh, w_zuerich_ue, w_basel, w_bs, w_genf, w_ge, w_liechtenstein,
     w_liechtenstein_padded, w_fl, w_fl_padded, w_li, w_li_padded, w_bern, w_flawil,
     w_liechtenstein_zh, w_bs_zh, w_genf_bs, w_genf_liechtenstein, w_basel_padded}

WorkAlphabet == {" ", "F", "f", "l", "i", "g", "e"}

\* every string of at most MaxWorkLen characters of WorkAlphabet
WorkShort == UNION {[1..n -> WorkAlphabet] : n \in 0..MaxWorkLen}

WorkAll == WorkNamed \cup WorkShort

\* birth dates around the two age thresholds (30 * 365 and 56 * 365 days
\* before Day0), today, and a date in the future
BirthDates ==
    {None} \cup {Some(Day0 - d) :
                  d \in {-1, 0, 25 * 365, 30 * 365 - 1, 30 * 365, 56 * 365 - 1, 56 * 365}}

Statuses == {"Neu-Grenzgänger", "Bereits Grenzgänger", "Plane Wechsel"}
Families == {"Allein", "Mit Partner", "Mit Kindern"}
Healths == {"Keine Vorerkrankungen", "Chronisch krank", "Bespreche ich persönlich"}
Residences == {"Vorarlberg", "Tirol", "andere"}

\* what a submitter may put in the derived fields of the request body
Derived ==
    {[score |-> None, category |-> None, recommended_model |-> None],
     [score |-> Some(0), category |-> Some("warm"), recommended_model |-> Some("CH")],
     [score |-> Some(100), category |-> Some("hot"), recommended_model |-> Some("Hybrid")]}

Leads(births, works, residences, healths, childrens, deriveds) ==
    { [birth_date |-> b, residence_at |-> ra, work_ch |-> w,
       consent_email |-> ce, consent_whatsapp |-> cw,
       status |-> st, family |-> fa, children_count |-> cc, health |-> h,
       score |-> d.score, category |-> d.category,
       recommended_model |-> d.recommended_model] :
      b \in births, ra \in residences, w \in works, ce \in BOOLEAN, cw \in BOOLEAN,
      st \in Statuses, fa \in Families, cc \in childrens, h \in healths,
      d \in deriveds }

LeadsWide ==
    Leads(BirthDates, {w_fl, w_genf, w_bern}, {"Vorarlberg", "andere"},
          {"Keine Vorerkrankungen", "Chronisch krank"}, {Some(0), Some(10)},
          {[score |-> None, category |-> None, recommended_model |-> None]})

LeadsByWork ==
    { [birth_date |-> None, residence_at |-> "Tirol", work_ch |-> w,
       consent_email |-> TRUE, consent_whatsapp |-> FALSE,
       status |-> "Plane Wechsel", family |-> "Mit Partner",
       children_count |-> None, health |-> "Bespreche ich persönlich",
       score |-> None, category |-> None, recommended_model |-> None] :
      w \in WorkAll }

Gross(n) == [numeric |-> TRUE, value |-> n]
NotANumber == [numeric |-> FALSE, value |-> 0]

Requests(grosses, works, ages, maritals, childrens, rates) ==
    { [gross_chf |-> g, work_ch |-> w, residence_at |-> "Vorarlberg", age |-> a,
       marital |-> m, children_count |-> c, exchange_rate |-> x] :
      g \in grosses, w \in works, a \in ages, m \in maritals, c \in childrens,
      x \in rates }

Maritals == {None, Some("single"), Some("married")}
Ages == {None} \cup {Some(a) : a \in 16..70}
BandAges == {None} \cup {Some(a) : a \in {16, 24, 25, 34, 35, 44, 45, 54, 55, 70}}

RequestsWide ==
    Requests({Gross(g) : g \in {1, 7, 6000, 12350, 12351, 20000}},
             {w_zuerich, w_basel, w_genf, w_fl_padded, w_bern},
             BandAges, Maritals, {None, Some(0), Some(3), Some(10)},
             {None, Some(95), Some(105)})

RequestsByWork ==
    Requests({Gross(6000)}, WorkAll, {Some(30)}, Maritals, {Some(0), Some(4)}, {Some(95)})

RequestsByFamily ==
    Requests({Gross(6000)}, {w_zuerich, w_bs, w_ge, w_li_padded, w_liechtenstein, w_bern},
             {None}, Maritals \cup {Some("divorced"), Some("")},
             {None} \cup {Some(c) : c \in 0..10}, {None})

RequestsByAge ==
    Requests({Gross(6000), Gross(7)}, {w_zuerich}, Ages, {Some("single")}, {Some(0)},
             {Some(95)})

\* requests that reach calc_net without having passed the schema
RequestsUnvalidated ==
    Requests({Gross(0), Gross(-100), NotANumber}, {w_zuerich, w_li}, {None, Some(30)},
             {Some("married")}, {Some(3)}, {None, Some(95)})

(***************************************************************************)
(* SpecFn: the functions called directly, each on one argument.             *)
(***************************************************************************)
FnCalls ==
    {[fn |-> "compute_score_and_recommendation", arg |-> l] : l \in LeadsWide \cup LeadsByWork}
    \cup {[fn |-> "calc_net", arg |-> r] :
            r \in RequestsWide \cup RequestsByWork \cup RequestsByFamily
                  \cup RequestsByAge \cup RequestsUnvalidated}

\* only lead scoring reads the clock
InitFn ==
    /\ store = <<>>
    /\ req \in FnCalls
    /\ clock \in IF req.fn = "calc_net" THEN {Day0} ELSE Day0..(Day0 + MaxTicks)
    /\ resp = NoResp

CallScore ==
    /\ req.fn = "compute_score_and_recommendation"
    /\ resp = NoResp
    /\ resp' = [kind |-> "score", ret |-> compute_score_and_recommendation(req.arg)]
    /\ UNCHANGED <<clock, store, req>>

CallCalcNet ==
    /\ req.fn = "calc_net"
    /\ resp = NoResp
    /\ resp' \in calc_net(req.arg)
    /\ UNCHANGED <<clock, store, req>>

NextFn == CallScore \/ CallCalcNet

SpecFn == InitFn /\ [][NextFn]_vars

(***************************************************************************)
(* Spec: the HTTP routes served one request after another, while the clock  *)
(* advances.                                                                *)
(***************************************************************************)
\* turns 30 (30 * 365 days old) on the day after Day0
BaseLead ==
    [birth_date |-> Some(Day0 - (30 * 365 - 1)), residence_at |-> "Vorarlberg",
     work_ch |-> w_fl_padded, consent_email |-> TRUE, consent_whatsapp |-> TRUE,
     status |-> "Plane Wechsel", family |-> "Allein", children_count |-> Some(0),
     health |-> "Keine Vorerkrankungen",
     score |-> None, category |-> None, recommended_model |-> None]

ApiLeads ==
    {BaseLead,
     [BaseLead EXCEPT !.score = Some(100), !.category = Some("hot"),
                      !.recommended_model = Some("CH")],
     [BaseLead EXCEPT !.score = Some(7)],
     [BaseLead EXCEPT !.birth_date = None, !.work_ch = w_zuerich,
                      !.status = "Neu-Grenzgänger", !.family = "Mit Kindern"],
     [BaseLead EXCEPT !.work_ch = w_bern, !.consent_email = FALSE,
                      !.consent_whatsapp = FALSE, !.recommended_model = Some("AT")]}

ApiLimits == {None, Some(1), Some(20)}

ApiRequests ==
    Requests({Gross(6000), Gross(0), NotANumber}, {w_zuerich}, {Some(30), Some(15)},
             {Some("single")}, {Some(0)}, {Some(95)})

Init ==
    /\ clock = Day0
    /\ store = <<>>
    /\ req = NoCall
    /\ resp = NoResp

\* line 66: datetime.utcnow() moves on between requests
Tick ==
    /\ clock < Day0 + MaxTicks
    /\ clock' = clock + 1
    /\ UNCHANGED <<store, req, resp>>

PostLead == \E lead \in ApiLeads : create_lead(lead)

GetLeads == \E limit \in ApiLimits : list_leads(limit)

PostCalcNet == \E r \in ApiRequests : post_calc_net(r)

Next == Tick \/ PostLead \/ GetLeads \/ PostCalcNet

Spec == Init /\ [][Next]_vars

(***************************************************************************)
(* Properties.                                                              *)
(***************************************************************************)
Abs(x) == IF x < 0 THEN -x ELSE x

\* c (in cents) is a nearest cent value of x, x in units of 1/per_cent cent
IsRounded(c, x, per_cent) == 2 * Abs(c * per_cent - x) <= per_cent

Scored == req.fn = "compute_score_and_recommendation" /\ resp.kind = "score"

\* calc_net was called on a request that conforms to NetCalcRequest
ValidCalc == req.fn = "calc_net" /\ valid_request(req.arg) /\ resp.kind # "none"

AgeYears(lead, today) == (today - Val(lead.birth_date)) \div 365

\* C1: the returned score lies in [0,100], and the returned category is "hot"
\* exactly when the returned score is >= 75, otherwise "warm".
C1_ScoreRangeAndCategory ==
    Scored =>
        /\ resp.ret.score \in 0..100
        /\ resp.ret.category \in {"hot", "warm"}
        /\ resp.ret.category = "hot" <=> resp.ret.score >= 75

\* a lead scored exactly at the threshold
C1_Witness == Scored /\ resp.ret.score = 75 /\ resp.ret.category = "hot"

\* The score the scoring rules give a lead on the day `today`.
ExpectedScore(lead, today) ==
    LET age == AgeYears(lead, today)
        age_pts == IF lead.birth_date = None THEN 0
                   ELSE CASE age < 30 -> 10
                          [] age > 55 -> -5
                          [] age \in 30..55 -> 0
        status_pts == CASE lead.status = "Neu-Grenzgänger" -> 15
                        [] lead.status = "Plane Wechsel" -> 5
                        [] lead.status = "Bereits Grenzgänger" -> 0
        family_pts == CASE lead.family = "Mit Kindern" -> 10
                        [] lead.family = "Mit Partner" -> 5
                        [] lead.family = "Allein" -> 0
        consent_pts == (IF lead.consent_email THEN 5 ELSE 0)
                       + (IF lead.consent_whatsapp THEN 10 ELSE 0)
    IN  Max(0, Min(100, 50 + age_pts + status_pts + family_pts + consent_pts))

ExampleHot(lead, today) ==
    /\ lead.birth_date # None /\ AgeYears(lead, today) = 25
    /\ lead.status = "Neu-Grenzgänger" /\ lead.family = "Mit Kindern"
    /\ lead.consent_email /\ lead.consent_whatsapp

ExampleWarm(lead) ==
    /\ lead.birth_date = None
    /\ lead.status = "Bereits Grenzgänger" /\ lead.family = "Allein"
    /\ ~lead.consent_email /\ ~lead.consent_whatsapp

\* C2: the score is clamp[0,100] of 50 + age factor (age = floor(days / 365);
\* +10 below 30, -5 above 55, 0 without birth_date) + status + family +
\* consents; health, residence_at and children_count never change it; the two
\* worked examples give 100/hot and 50/warm.
C2_ScoreFormula ==
    Scored =>
        LET lead == req.arg
        IN  /\ resp.ret.score = ExpectedScore(lead, clock)
            /\ \A h \in Healths :
                  compute_score_and_recommendation(
                      [lead EXCEPT !.health = h]).score = resp.ret.score
            /\ \A ra \in Residences :
                  compute_score_and_recommendation(
                      [lead EXCEPT !.residence_at = ra]).score = resp.ret.score
            /\ \A cc \in {None} \cup {Some(c) : c \in 0..10} :
                  compute_score_and_recommendation(
                      [lead EXCEPT !.children_count = cc]).score = resp.ret.score
            /\ ExampleHot(lead, clock) =>
                   resp.ret.score = 100 /\ resp.ret.category = "hot"
            /\ ExampleWarm(lead) =>
                   resp.ret.score = 50 /\ resp.ret.category = "warm"

\* the first worked example has been scored
C2_Witness == Scored /\ ExampleHot(req.arg, clock) /\ resp.ret.score = 100

\* The recommended model decided on the lowercased, trimmed work_ch.
ExpectedModel(work_ch) ==
    LET w == strip(lower(work_ch))
    IN  IF contains(kw_liechtenstein, w) \/ w = kw_fl THEN "AT"
        ELSE IF \E k \in {kw_zh, kw_zuerich_umlaut, kw_zuerich, kw_basel, kw_bs,
                          kw_ge, kw_genf} : contains(k, w) THEN "CH"
        ELSE "Hybrid"

\* C3: the recommended model is decided on the lowercased, trimmed work_ch,
\* first match winning: "liechtenstein" inside it or exactly "fl" gives "AT",
\* else one of the Swiss keywords inside it gives "CH", else "Hybrid"; so "FL"
\* surrounded by whitespace gives "AT".
C3_RecommendedModel ==
    Scored => resp.ret.recommended_model = ExpectedModel(req.arg.work_ch)

\* C4: AHV/IV/EO = gross*0.053, ALV = min(gross, 12350)*0.011, NBU =
\* gross*0.011, BVG = gross*estimate_bvg_rate(age), withholding = gross*rate,
\* health always 0; total_deductions is the sum of the five unrounded
\* components, net_chf = max(0, gross - total), net_eur = net_chf *
\* exchange_rate (0.95 when unset), each rounded to 2 decimals at output; the
\* worked example (6000, Zürich, 30, single, 0, 0.95) gives 318/66/66/420/270,
\* 1140, 4860 CHF and 4617 EUR.
C4_NetCalculation ==
    ValidCalc =>
        LET r == req.arg
            gross == r.gross_chf.value
            b == resp.body
            ahv == gross * 53
            alv == (IF gross > 12350 THEN 12350 ELSE gross) * 11
            nbu == gross * 11
            bvg == gross * estimate_bvg_rate(r.age)
            qs == gross * qs_rate_of(r)
            total == ahv + alv + nbu + bvg + qs
            net == Max(0, gross * 1000 - total)
            rate == IF r.exchange_rate = None THEN 95 ELSE Val(r.exchange_rate)
        IN  /\ resp.kind = "net"
            /\ IsRounded(b.breakdown.ahv_iv_eo, ahv, 10)
            /\ IsRounded(b.breakdown.alv, alv, 10)
            /\ gross > 12350 => b.breakdown.alv = 13585
            /\ IsRounded(b.breakdown.nbu, nbu, 10)
            /\ IsRounded(b.breakdown.bvg, bvg, 10)
            /\ IsRounded(b.breakdown.quellensteuer, qs, 10)
            /\ b.breakdown.krankenkasse = 0
            /\ IsRounded(b.total_deductions, total, 10)
            /\ IsRounded(b.net_chf, net, 10)
            /\ IsRounded(b.net_eur, net * rate, 1000)
            /\ ( /\ gross = 6000 /\ r.work_ch = w_zuerich /\ r.age = Some(30)
                 /\ r.marital = Some("single") /\ r.children_count = Some(0)
                 /\ r.exchange_rate = Some(95) )
               => /\ b.breakdown = [ahv_iv_eo |-> 31800, alv |-> 6600, nbu |-> 6600,
                                    bvg |-> 42000, quellensteuer |-> 27000,
                                    krankenkasse |-> 0]
                  /\ b.total_deductions = 114000
                  /\ b.net_chf = 486000
                  /\ b.net_eur = 461700

\* a result whose rounded total differs from the sum of its rounded components,
\* for a gross above the ALV cap
C4_Witness ==
    /\ ValidCalc /\ resp.kind = "net"
    /\ req.arg.gross_chf.value = 12351
    /\ resp.body.breakdown.alv = 13585
    /\ resp.body.total_deductions #
          resp.body.breakdown.ahv_iv_eo + resp.body.breakdown.alv
          + resp.body.breakdown.nbu + resp.body.breakdown.bvg
          + resp.body.breakdown.quellensteuer

\* The withholding rate (per mille) by the rules for request r.
ExpectedQsRate(r) ==
    LET w == strip(lower(r.work_ch))
        has(k) == contains(k, w)
        base == IF has(kw_zh) \/ has(kw_zuerich_umlaut) \/ has(kw_zuerich) THEN 45
                ELSE IF has(kw_bs) \/ has(kw_basel) THEN 43
                ELSE IF has(kw_ge) \/ has(kw_genf) THEN 50
                ELSE IF has(kw_liechtenstein) \/ w = kw_fl \/ w = kw_li THEN 12
                ELSE 20
        marital == IF r.marital = None \/ r.marital = Some("") THEN "single"
                   ELSE Val(r.marital)
        children == IF r.children_count = None THEN 0 ELSE Val(r.children_count)
        relief == (IF marital = "married" THEN 4 ELSE 0)
                  + 2 * (IF children > 3 THEN 3 ELSE children)
    IN  IF base - relief < 0 THEN 0 ELSE base - relief

\* C5: the withholding rate is the base rate by first match on the lowercased
\* trimmed work_ch (zh/zürich/zuerich 0.045; bs/basel 0.043; ge/genf 0.05;
\* liechtenstein or exactly fl/li 0.012; else 0.02) minus the relief
\* (0.004 if married) + 0.002*min(3, children), never negative; married with
\* 10 children has relief 0.01.
C5_WithholdingRate ==
    ValidCalc =>
        /\ resp.kind = "net"
        /\ resp.body.assumptions.qs_rate = ExpectedQsRate(req.arg)
        /\ resp.body.assumptions.qs_rate >= 0
        /\ (req.arg.marital = Some("married") /\ req.arg.children_count = Some(10))
           => qs_relief(or_enum(req.arg.marital, "single"),
                        or_num(req.arg.children_count, 0)) = 10

\* married with ten children in Basel: 0.043 - 0.01
C5_Witness ==
    /\ ValidCalc /\ resp.kind = "net"
    /\ req.arg.work_ch = w_basel
    /\ req.arg.marital = Some("married") /\ req.arg.children_count = Some(10)
    /\ resp.body.assumptions.qs_rate = 33

\* The BVG rate (per mille) by age band.
ExpectedBvgRate(age) ==
    IF age = None THEN 70
    ELSE CASE Val(age) < 25 -> 50
           [] Val(age) \in 25..34 -> 70
           [] Val(age) \in 35..44 -> 90
           [] Val(age) \in 45..54 -> 110
           [] Val(age) >= 55 -> 120

\* C6: estimate_bvg_rate is 0.07 for no age, 0.05 below 25, 0.07 for 25..34,
\* 0.09 for 35..44, 0.11 for 45..54, 0.12 from 55, for every age in 16..70,
\* and is non-decreasing in age.
C6_BvgRate ==
    ValidCalc =>
        /\ resp.kind = "net"
        /\ resp.body.assumptions.bvg_rate = ExpectedBvgRate(req.arg.age)
        /\ req.arg.age # None =>
               \A a \in 16..70 :
                   a <= Val(req.arg.age) =>
                       estimate_bvg_rate(Some(a)) <= resp.body.assumptions.bvg_rate

\* age 25 is in the 25..34 band
C6_Witness ==
    /\ ValidCalc /\ resp.kind = "net"
    /\ req.arg.age = Some(25) /\ resp.body.assumptions.bvg_rate = 70

\* C7: calc_net fails with the client error exactly when gross_chf is not a
\* positive number: a zero or negative gross_chf that reaches calc_net is
\* rejected and no result is produced; every positive gross_chf succeeds.
C7_RejectsNonPositiveGross ==
    (req.fn = "calc_net" /\ resp.kind # "none") =>
        LET positive == req.arg.gross_chf.numeric /\ req.arg.gross_chf.value > 0
        IN  /\ ~positive <=> (resp.kind = "error" /\ resp.status = 400)
            /\ positive <=> resp.kind = "net"

\* C8: scoring the same lead twice, at any two wall-clock times, returns the
\* same (score, category, recommended_model).
C8_ScoringDeterministic ==
    [][ ( /\ req.fn = "create_lead" /\ req'.fn = "create_lead"
          /\ resp.kind = "lead" /\ resp'.kind = "lead"
          /\ req'.arg = req.arg )
        => /\ resp'.body.score = resp.body.score
           /\ resp'.body.category = resp.body.category
           /\ resp'.body.recommended_model = resp.body.recommended_model ]_vars

DerivedFields == {"score", "category", "recommended_model"}

\* every stored record carries the three derived fields and the source tag
StoredComplete ==
    \A i \in 1..Len(store) :
        LET d == store[i].doc
        IN  /\ d.score # None /\ d.category # None /\ d.recommended_model # None
            /\ d.source = "web-form"

\* a request leaves the stored records as they are, and a record it adds is
\* the submitted lead with the computed values, the ones the response returns
StoredStep ==
    /\ Len(store') >= Len(store)
    /\ \A i \in 1..Len(store) : store'[i] = store[i]
    /\ Len(store') > Len(store) =>
           LET d == store'[Len(store')].doc
               lead == req'.arg
               s == compute_score_and_recommendation(lead)
           IN  /\ Len(store') = Len(store) + 1
               /\ req'.fn = "create_lead" /\ resp'.kind = "lead"
               /\ resp'.body.score = s.score
               /\ resp'.body.category = s.category
               /\ resp'.body.recommended_model = s.recommended_model
               /\ d.score = Some(s.score)
               /\ d.category = Some(s.category)
               /\ d.recommended_model = Some(s.recommended_model)
               /\ d.source = "web-form"
               /\ DOMAIN d = (DOMAIN lead) \cup {"source"}
               /\ \A k \in (DOMAIN lead) \ DerivedFields : d[k] = lead[k]

\* C9: every record handed to the store has score, category and
\* recommended_model all set to the values computed for that submission and
\* returned in the response, with source "web-form"; submitted values for the
\* three fields are overwritten; no request changes or removes a stored record.
C9_StoredLeads == [](StoredComplete) /\ [][StoredStep]_vars

\* a submission that supplied its own score is stored with the computed one,
\* next to an earlier record
C9_Witness ==
    /\ req.fn = "create_lead" /\ resp.kind = "lead"
    /\ Len(store) = 2
    /\ req.arg.score = Some(100)
    /\ store[2].doc.score = Some(resp.body.score)
    /\ resp.body.score # 100

\* C10: for every valid request base - relief is at least 0.002, the
\* effective withholding rate lies in [0.002, 0.05], the deductions are at
\* most 24.5% of gross, so net_chf is positive and net_chf + total_deductions
\* = gross before rounding; the raw lead score lies in [45, 100], so clamping
\* never changes it.
C10_GuardsNeverBind ==
    /\ ValidCalc =>
           LET r == req.arg
               gross == r.gross_chf.value
               a == amounts(r)
               base == qs_base(work_of(r))
               relief == qs_relief(or_enum(r.marital, "single"),
                                   or_num(r.children_count, 0))
           IN  /\ base - relief >= 2
               /\ resp.body.assumptions.qs_rate = base - relief
               /\ resp.body.assumptions.qs_rate \in 2..50
               /\ a.total_deductions <= 245 * gross
               /\ a.total_deductions < gross * 1000
               /\ a.net_chf > 0
               /\ a.net_chf + a.total_deductions = gross * 1000
    /\ Scored =>
           /\ raw_score(req.arg) \in 45..100
           /\ resp.ret.score = raw_score(req.arg)

\* Liechtenstein, married, three or more children: the smallest rate
C10_Witness ==
    /\ ValidCalc /\ resp.kind = "net"
    /\ resp.body.assumptions.qs_rate = 2
    /\ req.arg.gross_chf.value = 20000

====
